---- MODULE Spec2Model ----
(***************************************************************************)
(* A model of the AR2300 streaming capture pipeline (lib/src): the         *)
(* closeable FIFO Queue (queue.rs), the isochronous transfer engine        *)
(* (usb.rs), the packet synchronizer/decoder and the Receiver capture      *)
(* lifecycle (iq.rs) and the top-level receive() run (lib.rs).             *)
(*                                                                         *)
(* Threads.  Receiver::start and Receiver::stop take &mut self, so they    *)
(* exclude one another; each is one action.  The completion callback is    *)
(* reached through the raw user_data pointer and runs concurrently with    *)
(* them, so it is split at its atomic operations (flag swaps, one mutex-   *)
(* protected enqueue at a time, the final load of the Running flag).       *)
(* Queue::dequeue blocks on a condition variable and is split at the wait. *)
(***************************************************************************)
EXTENDS Integers, Sequences, FiniteSets, TLC

VARIABLES
    q,            \* Queue.q: the VecDeque behind the mutex
    closed,       \* Queue.closed
    cpc,          \* per consumer thread: position inside Queue::dequeue
    enq,          \* history: items in the order enqueue() pushed them
    deq,          \* history: items in the order dequeue() returned them
    running,      \* Receiver.running
    skip_packet,  \* Receiver.skip_packet
    buf,          \* Receiver.buf: index of its current contents in Buffers
    pending,      \* transfers submitted to libusb and not yet completed
    freed,        \* the Receiver (and its buffer) has been dropped
    crashed,      \* the process died on a use of freed memory
    cbpc,         \* event thread: "idle", "run" (inside Receiver::callback) or
                  \* "cont" (callback_wrapper about to resubmit)
    cbtodo,       \* samples the running callback has still to enqueue
    cbsecond,     \* the running callback is the one after a failed resubmit
    startCmds,    \* number of START_CAPTURE writes issued
    endCmds,      \* number of END_CAPTURE writes issued
    lastStart,    \* result of the last start() call
    lastStop,     \* what the last stop() call did
    rpc,          \* position of the receive() run ("off": no receive() run)
    recvResult,   \* result of receive()
    xferErr,      \* a transfer error reported to the callback ended the capture
    dec,          \* history: samples in the order the callback decoded them
    wpc,          \* position of the write() run ("off": no writer thread)
    sink,         \* bytes the Writer has written to its output
    wres,         \* result of write()
    pin,          \* arguments of a single call of a function under test
    pout          \* what that call returned ("none": not called yet)

qvars == <<q, closed, cpc, enq, deq>>
rvars == <<running, skip_packet, buf, pending, freed, crashed, cbpc, cbtodo,
           cbsecond, startCmds, endCmds, lastStart, lastStop, rpc, recvResult,
           xferErr>>
wvars == <<wpc, sink, wres>>
pvars == <<pin, pout>>
vars == <<q, closed, cpc, enq, deq, running, skip_packet, buf, pending, freed,
          crashed, cbpc, cbtodo, cbsecond, startCmds, endCmds, lastStart,
          lastStop, rpc, recvResult, xferErr, dec, wpc, sink, wres, pin, pout>>

----------------------------------------------------------------------------
(* Bounds of the model. *)

\* consumer threads blocked in or calling dequeue
NumConsumers == 2
\* distinct item values a client enqueues
NumItems == 2
\* total number of enqueue() calls in a run
MaxEnq == 3
\* transfers in flight at once (start() after stop() adds one)
MaxPending == 2
\* START_CAPTURE writes in a run
MaxStarts == 2
\* PACKET_ATOM of iq.rs scaled down from 512 bytes
PACKET_ATOM == 4
\* the capacity a client passes to Queue::new
QueueCapacity == 2
\* width of usize in bits, scaled down from 64
UsizeBits == 6
\* longest buffer of arbitrary 0/1 bytes handed to the decoder
MaxBitBuffer == 9
\* largest low byte of I in a framed test chunk
MaxFrameByte == 3
\* how many times the client of the pipeline writes START_CAPTURE
PipelineStarts == 1
\* largest packet count and buffer length handed to submit_iso directly
MaxSubmitPackets == 3
MaxSubmitBuffer == 9

Consumers == 1..NumConsumers
Items == 1..NumItems

----------------------------------------------------------------------------
(* iq.rs constants *)

PACKET_COUNT == 2
PACKET_LENGTH == PACKET_ATOM * 3
BUFFER_LEN == (PACKET_LENGTH * PACKET_COUNT) + PACKET_LENGTH
\* DATA_ENDPOINT = 0x86
DATA_ENDPOINT == 134
\* LIBUSB_ENDPOINT_DIR_MASK = LIBUSB_ENDPOINT_IN = 0x80
LIBUSB_ENDPOINT_IN == 128

----------------------------------------------------------------------------
(* Packet synchronizer / decoder (iq.rs).  A buffer is a sequence of bytes;  *)
(* a slice of it is given by its 0-based start offset.                       *)

\* valid_packet(&buffer[off..]): bit 0 of byte 1.  Indexing byte 1 of a slice
\* shorter than two bytes panics; the callers below test for that first.
valid_packet(b, off) == (b[off + 2] % 2) = 1

\* the scan gone wrong: it advances a whole chunk at a time
RECURSIVE find_loop_aligned(_, _)
find_loop_aligned(b, off) ==
    IF (Len(b) - off) > 8 /\ ~valid_packet(b, off)
    THEN find_loop_aligned(b, off + 8)
    ELSE off

\* find_packet: the while loop of lines 58-60, from slice offset off
RECURSIVE find_loop(_, _)
find_loop(b, off) ==
    IF (Len(b) - off) > 8 /\ ~valid_packet(b, off)
    THEN find_loop(b, off + 1)
    ELSE off

\* find_packet: Ok(slice at off), Err("Packet not found"), or the index panic
find_packet(b) ==
    LET off == find_loop(b, 0)
    IN  IF (Len(b) - off) < 2 THEN [kind |-> "Panic", off |-> off]
        ELSE IF valid_packet(b, off) THEN [kind |-> "Ok", off |-> off]
        ELSE [kind |-> "Err", off |-> off]

\* LittleEndian::read_u32 of the four bytes at 0-based offset off.  A u32
\* exceeds TLC's 32-bit integers, so it is carried as its two 16-bit
\* halves: hi = (n >> 16) as u16, lo = n as u16 (read_packet lines 75-78)
read_u32(b, off) ==
    [hi |-> b[off + 3] + (256 * b[off + 4]), lo |-> b[off + 1] + (256 * b[off + 2])]

\* the normalization gone wrong: bit 0 of the low half is left as it was
numerator_keep_low(n) == [hi |-> (n.hi * 2) % 65536, lo |-> n.lo]

\* read_packet lines 80-86: the halves of the u32 ((n16[0] << 16) | n16[1])
\* that the closure f converts and normalizes
numerator(n) ==
    [hi |-> (n.hi * 2) % 65536,
     lo |-> IF n.hi >= 32768 THEN (n.lo - (n.lo % 2)) + 1 ELSE n.lo - (n.lo % 2)]

\* number of bits of h beyond 8 (h < 2^16)
RECURSIVE excess_bits(_)
excess_bits(h) == IF h < 256 THEN 0 ELSE 1 + excess_bits(h \div 2)

RECURSIVE pow2(_)
pow2(k) == IF k = 0 THEN 1 ELSE 2 * pow2(k - 1)

\* `as f32` on the u32 n, then `/ BASE`: round to a 24-bit significand, ties
\* to even.  The f32 is <<m, e>>, standing for m * 2^e / 2^32 (BASE = 2^32);
\* e > 0 only with 2^23 <= m < 2^24
to_f32(n) ==
    LET e == excess_bits(n.hi)
        u == pow2(e)
        m == (n.hi * pow2(16 - e)) + (n.lo \div u)
        r == n.lo % u
        m1 == IF (2 * r > u) \/ ((2 * r = u) /\ (m % 2 = 1)) THEN m + 1 ELSE m
    IN  IF m1 = 16777216 THEN <<8388608, e + 1>> ELSE <<m1, e>>

\* read_packet of the 8 bytes at offset off: (I, Q) as f32 numerators over BASE
read_packet(b, off) ==
    <<to_f32(numerator(read_u32(b, off))), to_f32(numerator(read_u32(b, off + 4)))>>

\* the chunk loop gone wrong: it ends at the first chunk without the marker
RECURSIVE decode_chunks_stop(_, _)
decode_chunks_stop(b, off) ==
    IF off >= Len(b) THEN <<>>
    ELSE IF (Len(b) - off) >= 8 /\ valid_packet(b, off)
         THEN <<read_packet(b, off)>> \o decode_chunks_stop(b, off + 8)
         ELSE <<>>

\* the loop of callback lines 111-116 over buf.chunks(8), from slice offset off:
\* the samples it enqueues, in order
RECURSIVE decode_chunks(_, _)
decode_chunks(b, off) ==
    IF off >= Len(b) THEN <<>>
    ELSE IF (Len(b) - off) >= 8 /\ valid_packet(b, off)
         THEN <<read_packet(b, off)>> \o decode_chunks(b, off + 8)
         ELSE decode_chunks(b, off + 8)

\* callback lines 108-119: the samples one buffer yields
decode(b) ==
    LET r == find_packet(b)
    IN  IF r.kind = "Ok" THEN decode_chunks(b, r.off) ELSE <<>>

----------------------------------------------------------------------------
(* Transfer buffer contents the hardware can deliver.  Each is BUFFER_LEN    *)
(* bytes: a fixed head followed by marker-free zero bytes.                   *)

Zeros(n) == [i \in 1..n |-> 0]

Pad(head) == head \o Zeros(BUFFER_LEN - Len(head))

\* a chunk with the framing marker: I = 0x00000100 + k, Q = 0x80FF0100 + k
Framed(k) == <<k, 1, 0, 0, k, 1, 255, 128>>

\* a chunk without the marker
Unframed == <<7, 2, 0, 0, 0, 2, 0, 0>>

Buffers ==
    <<  \* vec![0; BUFFER_LEN]: the buffer as Receiver::new allocates it
        Zeros(BUFFER_LEN),
        \* 8 stale bytes, then framed, framed, unframed
        Pad(Zeros(8) \o Framed(2) \o Framed(4) \o Unframed),
        \* 3 stale bytes (sync off the 8-byte grid), unframed start, one framed
        Pad(<<0, 0, 0>> \o Framed(6)) >>

BufferIds == 1..Len(Buffers)

\* whether find_packet (callback line 109) finds a sync position in each
Synced == [i \in BufferIds |-> find_packet(Buffers[i]).kind = "Ok"]

\* what the callback's decode yields for each of them
Decoded == [i \in BufferIds |-> decode(Buffers[i])]

----------------------------------------------------------------------------
(* Queue (queue.rs) *)

\* VecDeque::with_capacity: an empty deque, space reserved for n items
with_capacity(n) == <<>>

\* push_back gone wrong: the capacity is enforced and the item dropped
push_back_bounded(s, v) == IF Len(s) >= QueueCapacity THEN s ELSE Append(s, v)

\* push_back gone wrong: the item goes to the front
push_back_front(s, v) == <<v>> \o s

\* VecDeque::push_back
push_back(s, v) == Append(s, v)

\* pop_front gone wrong: takes the back of the deque
pop_front_back(s) ==
    IF s = <<>> THEN [some |-> FALSE, rest |-> s]
    ELSE [some |-> TRUE, item |-> s[Len(s)], rest |-> SubSeq(s, 1, Len(s) - 1)]

\* VecDeque::pop_front: Some(front) and the rest, or None
pop_front(s) ==
    IF s = <<>> THEN [some |-> FALSE, rest |-> s]
    ELSE [some |-> TRUE, item |-> Head(s), rest |-> Tail(s)]

\* Queue::is_empty
is_empty == q = <<>>

\* Queue::is_closed
is_closed == closed

\* the wait_timeout_while condition of dequeue: keep waiting while it holds
wait_cond == ~is_closed /\ is_empty

\* Condvar::notify_all: every thread blocked in the wait becomes runnable
cv_notify_all(pcs) ==
    [c \in Consumers |-> IF pcs[c] = "waiting" THEN "woken" ELSE pcs[c]]

\* Queue::enqueue(v), as a step of whichever thread calls it
do_enqueue(v) ==
    /\ q' = push_back(q, v)
    /\ cpc' = IF q = <<>> THEN cv_notify_all(cpc) ELSE cpc
    /\ enq' = Append(enq, v)

\* the pop gone wrong: a closed queue returns None and keeps its items
do_pop_open_only(c) ==
    LET r == IF closed THEN [some |-> FALSE, rest |-> q] ELSE pop_front(q)
    IN  /\ q' = r.rest
        /\ deq' = IF r.some THEN Append(deq, r.item) ELSE deq
        /\ cpc' = [cpc EXCEPT ![c] = "idle"]

\* dequeue line 59: pop_front and return, by consumer c
do_pop(c) ==
    LET r == pop_front(q)
    IN  /\ q' = r.rest
        /\ deq' = IF r.some THEN Append(deq, r.item) ELSE deq
        /\ cpc' = [cpc EXCEPT ![c] = "idle"]

\* a client thread calls enqueue(v)
enqueue(v) ==
    /\ Len(enq) < MaxEnq
    /\ do_enqueue(v)
    /\ UNCHANGED <<closed, deq>>
    /\ UNCHANGED rvars
    /\ UNCHANGED <<wvars, pvars, dec>>

\* consumer c calls dequeue: takes the lock and tests the condition; it either
\* blocks on the condition variable or pops at once
dequeue(c) ==
    /\ cpc[c] = "idle"
    /\ IF wait_cond
       THEN cpc' = [cpc EXCEPT ![c] = "waiting"] /\ UNCHANGED <<q, deq>>
       ELSE do_pop(c)
    /\ UNCHANGED <<closed, enq>>
    /\ UNCHANGED rvars
    /\ UNCHANGED <<wvars, pvars, dec>>

\* a notified (or spuriously woken) consumer reacquires the lock and tests the
\* condition again
dequeue_wake(c) ==
    /\ cpc[c] = "woken"
    /\ IF wait_cond
       THEN cpc' = [cpc EXCEPT ![c] = "waiting"] /\ UNCHANGED <<q, deq>>
       ELSE do_pop(c)
    /\ UNCHANGED <<closed, enq>>
    /\ UNCHANGED rvars
    /\ UNCHANGED <<wvars, pvars, dec>>

\* the timeout of a blocked dequeue elapses: the wait ends whatever the
\* condition says, and line 59 pops
dequeue_timeout(c) ==
    /\ cpc[c] \in {"waiting", "woken"}
    /\ do_pop(c)
    /\ UNCHANGED <<closed, enq>>
    /\ UNCHANGED rvars
    /\ UNCHANGED <<wvars, pvars, dec>>

\* Condvar waits may wake spuriously
spurious_wake(c) ==
    /\ cpc[c] = "waiting"
    /\ cpc' = [cpc EXCEPT ![c] = "woken"]
    /\ UNCHANGED <<q, closed, enq, deq>>
    /\ UNCHANGED rvars
    /\ UNCHANGED <<wvars, pvars, dec>>

\* Queue::notify_all
notify_all ==
    /\ cpc' = cv_notify_all(cpc)
    /\ UNCHANGED <<q, closed, enq, deq>>
    /\ UNCHANGED rvars
    /\ UNCHANGED <<wvars, pvars, dec>>

\* the swap gone wrong: stores nothing
closed_swap_lost(old) == old

\* the swap gone wrong: it flips the flag
closed_swap_toggle(old) == ~old

\* closed.swap(true): the new value of the flag
closed_swap(old) == TRUE

\* Queue::close
do_close == closed' = closed_swap(closed)

\* a client thread calls close()
close ==
    /\ do_close
    /\ UNCHANGED <<q, cpc, enq, deq>>
    /\ UNCHANGED rvars
    /\ UNCHANGED <<wvars, pvars, dec>>

----------------------------------------------------------------------------
(* Transfer engine (usb.rs) *)

\* libusb error codes a native call can return besides success
LibusbErrors ==
    {"IO", "INVALID_PARAM", "ACCESS", "NO_DEVICE", "NOT_FOUND", "BUSY", "TIMEOUT",
     "OVERFLOW", "PIPE", "INTERRUPTED", "NO_MEM", "NOT_SUPPORTED", "OTHER"}

\* what libusb_submit_transfer returns
SubmitReturns == {"SUCCESS"} \cup LibusbErrors

\* completion statuses of a transfer; "UNKNOWN" is any value outside the enum
TransferStatuses ==
    {"COMPLETED", "ERROR", "TIMED_OUT", "CANCELLED", "STALL", "NO_DEVICE",
     "OVERFLOW", "UNKNOWN"}

\* from_libusb: libusb error code to rusb::Error
from_libusb(err) ==
    CASE err = "IO" -> "Io"
      [] err = "INVALID_PARAM" -> "InvalidParam"
      [] err = "ACCESS" -> "Access"
      [] err = "NO_DEVICE" -> "NoDevice"
      [] err = "NOT_FOUND" -> "NotFound"
      [] err = "BUSY" -> "Busy"
      [] err = "TIMEOUT" -> "Timeout"
      [] err = "OVERFLOW" -> "Overflow"
      [] err = "PIPE" -> "Pipe"
      [] err = "INTERRUPTED" -> "Interrupted"
      [] err = "NO_MEM" -> "NoMem"
      [] err = "NOT_SUPPORTED" -> "NotSupported"
      [] OTHER -> "Other"

\* callback_wrapper lines 206-215: the result handed to the callback
status_result(status) ==
    CASE status = "COMPLETED" -> "Ok"
      [] status = "ERROR" -> "Other"
      [] status = "TIMED_OUT" -> "Timeout"
      [] status = "CANCELLED" -> "Interrupted"
      [] status = "STALL" -> "Io"
      [] status = "NO_DEVICE" -> "NoDevice"
      [] status = "OVERFLOW" -> "Overflow"
      [] OTHER -> from_libusb(status)

\* usize holds values below this
USIZE_MOD == pow2(UsizeBits)

\* usize arithmetic of an unchecked (release) build: it wraps
usize_mul(a, b) == (a * b) % USIZE_MOD
usize_add(a, b) == (a + b) % USIZE_MOD

\* submit_iso line 166: (packet_len * num_packets) + packet_len
iso_buffer_len(num_packets, packet_len) ==
    usize_add(usize_mul(packet_len, num_packets), packet_len)

\* line 166 leaves usize: a build with overflow checks panics there
iso_overflows(num_packets, packet_len) ==
    \/ packet_len * num_packets >= USIZE_MOD
    \/ usize_mul(packet_len, num_packets) + packet_len >= USIZE_MOD

\* submit_iso line 162: endpoint & LIBUSB_ENDPOINT_DIR_MASK == LIBUSB_ENDPOINT_IN
endpoint_in(endpoint) ==
    ((endpoint \div LIBUSB_ENDPOINT_IN) % 2) * LIBUSB_ENDPOINT_IN = LIBUSB_ENDPOINT_IN

\* submit_iso lines 162-170: both parameter checks pass and the unsafe block,
\* with its native calls, is entered
iso_native_called(endpoint, num_packets, packet_len, buffer_len) ==
    /\ endpoint_in(endpoint)
    /\ ~(buffer_len < iso_buffer_len(num_packets, packet_len))

\* submit_iso: its result for a given return of libusb_submit_transfer
\* (which is only called when both parameter checks pass)
submit_iso(endpoint, num_packets, packet_len, buffer_len, native) ==
    IF ~endpoint_in(endpoint)
    THEN "InvalidParam"
    ELSE IF buffer_len < iso_buffer_len(num_packets, packet_len)
    THEN "InvalidParam"
    ELSE IF native = "SUCCESS" THEN "Ok" ELSE from_libusb(native)

----------------------------------------------------------------------------
(* Receiver (iq.rs) *)

\* compare_exchange gone wrong: stores new whatever the flag holds
compare_exchange_blind(cur, current, new) == [ok |-> TRUE, val |-> new]

\* AtomicBool::compare_exchange(current, new) on a flag holding cur
compare_exchange(cur, current, new) ==
    [ok |-> cur = current, val |-> IF cur = current THEN new ELSE cur]

\* callback lines 98-106: Ok and Error::Other count as success
callback_success(result) == result \in {"Ok", "Other"}

\* callback line 108-119: what the callback will enqueue from the buffer
callback_samples(result, skip) ==
    IF callback_success(result) /\ ~skip THEN Decoded[buf] ELSE <<>>

\* the callback gone wrong: a buffer without a sync position ends the capture
callback_enter_strict(result, second) ==
    /\ Len(enq) + Len(callback_samples(result, skip_packet)) <= MaxEnq
    /\ running' = IF callback_success(result) /\ (skip_packet \/ Synced[buf])
                   THEN running ELSE FALSE
    /\ xferErr' = (xferErr \/ (~callback_success(result) /\ running))
    /\ skip_packet' = IF callback_success(result) THEN FALSE ELSE skip_packet
    /\ cbtodo' = callback_samples(result, skip_packet)
    /\ dec' = dec \o callback_samples(result, skip_packet)
    /\ cbpc' = "run"
    /\ cbsecond' = second

\* Receiver::callback up to the decode (lines 98-110), entered with `result`;
\* second = it is the invocation callback_wrapper makes after a failed resubmit
callback_enter(result, second) ==
    /\ Len(enq) + Len(callback_samples(result, skip_packet)) <= MaxEnq
    /\ running' = IF callback_success(result) THEN running ELSE FALSE
    /\ xferErr' = (xferErr \/ (~callback_success(result) /\ running))
    /\ skip_packet' = IF callback_success(result) THEN FALSE ELSE skip_packet
    /\ cbtodo' = callback_samples(result, skip_packet)
    /\ dec' = dec \o callback_samples(result, skip_packet)
    /\ cbpc' = "run"
    /\ cbsecond' = second

\* the event thread may dispatch completions: any time a client drives the
\* library itself, and inside handle_events when receive() runs
dispatching == rpc \in {"off", "events"}

\* callback_wrapper is entered for a completed transfer with `status`
callback_wrapper(status) ==
    /\ ~crashed
    /\ dispatching
    /\ cbpc = "idle"
    /\ pending > 0
    /\ pending' = pending - 1
    /\ callback_enter(status_result(status), FALSE)
    /\ UNCHANGED <<buf, freed, crashed, startCmds, endCmds, lastStart, lastStop,
                   rpc, recvResult>>
    /\ UNCHANGED qvars
    /\ UNCHANGED <<wvars, pvars>>

\* callback line 113: one self.queue.enqueue(read_packet(packet))
callback_enqueue ==
    /\ ~crashed
    /\ cbpc = "run"
    /\ cbtodo # <<>>
    /\ do_enqueue(Head(cbtodo))
    /\ cbtodo' = Tail(cbtodo)
    /\ UNCHANGED <<closed, deq>>
    /\ UNCHANGED <<running, skip_packet, buf, pending, freed, crashed, cbpc,
                   cbsecond, startCmds, endCmds, lastStart, lastStop, rpc,
                   recvResult, xferErr>>
    /\ UNCHANGED <<wvars, pvars, dec>>

\* the continue decision gone wrong: always go on
callback_result_always == TRUE

\* the callback's continue decision, line 122
callback_result == running

\* callback_wrapper gone wrong: it resubmits whatever the callback returned
callback_return_ignored ==
    /\ ~crashed
    /\ cbpc = "run"
    /\ cbtodo = <<>>
    /\ cbpc' = IF cbsecond THEN "idle" ELSE "cont"
    /\ cbsecond' = FALSE
    /\ UNCHANGED <<running, skip_packet, buf, pending, freed, crashed, cbtodo,
                   startCmds, endCmds, lastStart, lastStop, rpc, recvResult,
                   xferErr>>
    /\ UNCHANGED qvars
    /\ UNCHANGED <<wvars, pvars, dec>>

\* callback line 122: the callback returns the Running flag to
\* callback_wrapper, which goes on to resubmit on true ("cont"); the value the
\* second invocation returns is dropped (usb.rs line 224)
callback_return ==
    /\ ~crashed
    /\ cbpc = "run"
    /\ cbtodo = <<>>
    /\ cbpc' = IF cbsecond \/ ~callback_result THEN "idle" ELSE "cont"
    /\ cbsecond' = FALSE
    /\ UNCHANGED <<running, skip_packet, buf, pending, freed, crashed, cbtodo,
                   startCmds, endCmds, lastStart, lastStop, rpc, recvResult,
                   xferErr>>
    /\ UNCHANGED qvars
    /\ UNCHANGED <<wvars, pvars, dec>>

\* callback_wrapper lines 217-227: the transfer is resubmitted, and a failed
\* resubmission invokes the callback again with the error
callback_resubmit(native) ==
    /\ ~crashed
    /\ cbpc = "cont"
    /\ IF native = "SUCCESS"
       THEN /\ pending < MaxPending
            /\ pending' = pending + 1
            /\ cbpc' = "idle"
            /\ UNCHANGED <<running, skip_packet, cbtodo, cbsecond, xferErr, dec>>
       ELSE /\ callback_enter(from_libusb(native), TRUE)
            /\ UNCHANGED pending
    /\ UNCHANGED <<buf, freed, crashed, startCmds, endCmds, lastStart, lastStop,
                   rpc, recvResult>>
    /\ UNCHANGED qvars
    /\ UNCHANGED <<wvars, pvars>>

\* the device fills the transfer buffer of a pending transfer
hw_fill(b) ==
    /\ ~crashed
    /\ pending > 0
    /\ buf # b
    /\ buf' = b
    /\ UNCHANGED <<running, skip_packet, pending, freed, crashed, cbpc, cbtodo,
                   cbsecond, startCmds, endCmds, lastStart, lastStop, rpc,
                   recvResult, xferErr>>
    /\ UNCHANGED qvars
    /\ UNCHANGED <<wvars, pvars, dec>>

\* start gone wrong: the transfer is submitted whatever the command write did
start_body_submit_anyway(wr, native) ==
    LET cas == compare_exchange(running, FALSE, TRUE)
        sub == submit_iso(DATA_ENDPOINT, PACKET_COUNT, PACKET_LENGTH, BUFFER_LEN, native)
    IN  IF ~cas.ok
        THEN /\ lastStart' = "AlreadyRunning"
             /\ UNCHANGED <<running, startCmds, pending>>
        ELSE /\ startCmds < MaxStarts
             /\ pending < MaxPending
             /\ running' = cas.val
             /\ startCmds' = startCmds + 1
             /\ pending' = IF sub = "Ok" THEN pending + 1 ELSE pending
             /\ lastStart' = IF ~wr THEN "ErrCommand"
                             ELSE IF sub = "Ok" THEN "Ok" ELSE "ErrSubmit"

\* Receiver::start; wr = the START_CAPTURE write succeeds, native = what
\* libusb_submit_transfer returns if it is reached
start_body(wr, native) ==
    LET cas == compare_exchange(running, FALSE, TRUE)
        sub == submit_iso(DATA_ENDPOINT, PACKET_COUNT, PACKET_LENGTH, BUFFER_LEN, native)
    IN  IF ~cas.ok
        THEN /\ lastStart' = "AlreadyRunning"
             /\ UNCHANGED <<running, startCmds, pending>>
        ELSE /\ startCmds < MaxStarts
             /\ pending < MaxPending
             /\ running' = cas.val
             /\ startCmds' = startCmds + 1
             /\ IF ~wr
                THEN lastStart' = "ErrCommand" /\ UNCHANGED pending
                ELSE IF sub = "Ok"
                THEN lastStart' = "Ok" /\ pending' = pending + 1
                ELSE lastStart' = "ErrSubmit" /\ UNCHANGED pending

\* stop gone wrong: closes the queue and writes END_CAPTURE before it looks
\* at the Running flag
stop_body_eager(wr) ==
    /\ running' = FALSE
    /\ do_close
    /\ endCmds' = endCmds + 1
    /\ lastStop' = IF running THEN (IF wr THEN "Sent" ELSE "SendFailed") ELSE "NoOp"

\* Receiver::stop; wr = the END_CAPTURE write succeeds
stop_body(wr) ==
    LET cas == compare_exchange(running, TRUE, FALSE)
    IN  IF cas.ok
        THEN /\ running' = cas.val
             /\ do_close
             /\ endCmds' = endCmds + 1
             /\ lastStop' = IF wr THEN "Sent" ELSE "SendFailed"
        ELSE /\ lastStop' = "NoOp"
             /\ UNCHANGED <<running, closed, endCmds>>

\* a client calls start()
start(wr, native) ==
    /\ ~crashed /\ ~freed
    /\ rpc = "off"
    /\ start_body(wr, native)
    /\ UNCHANGED <<skip_packet, buf, freed, crashed, cbpc, cbtodo, cbsecond,
                   endCmds, lastStop, rpc, recvResult, xferErr>>
    /\ UNCHANGED qvars
    /\ UNCHANGED <<wvars, pvars, dec>>

\* the ctrlc handler of receive() is installed and holds the Receiver
handler_installed ==
    \/ rpc \in {"head", "events"}
    \/ (rpc = "done" /\ lastStart = "Ok" /\ ~freed)

\* a client calls stop(), or the ctrlc handler of receive() does
stop(wr) ==
    /\ ~crashed /\ ~freed
    /\ (rpc = "off" \/ handler_installed)
    /\ stop_body(wr)
    /\ UNCHANGED <<skip_packet, buf, pending, freed, crashed, cbpc, cbtodo,
                   cbsecond, startCmds, lastStart, rpc, recvResult, xferErr>>
    /\ UNCHANGED <<q, cpc, enq, deq>>
    /\ UNCHANGED <<wvars, pvars, dec>>

\* impl Drop for Receiver: stop(), then the fields (the buffer) are freed
drop_body(wr) ==
    /\ stop_body(wr)
    /\ freed' = TRUE

\* the client's Receiver goes out of scope
drop(wr) ==
    /\ ~crashed /\ ~freed
    /\ rpc = "off"
    /\ drop_body(wr)
    /\ UNCHANGED <<skip_packet, buf, pending, crashed, cbpc, cbtodo, cbsecond,
                   startCmds, lastStart, rpc, recvResult, xferErr>>
    /\ UNCHANGED <<q, cpc, enq, deq>>
    /\ UNCHANGED <<wvars, pvars, dec>>

\* a transfer completes into, or a callback runs on, the freed Receiver:
\* undefined behaviour, of which one outcome is that the process dies (the
\* other, that the stale memory still reads as before, is the steps above)
crash ==
    /\ ~crashed
    /\ freed
    /\ (pending > 0 \/ cbpc # "idle")
    /\ crashed' = TRUE
    /\ UNCHANGED <<running, skip_packet, buf, pending, freed, cbpc, cbtodo,
                   cbsecond, startCmds, endCmds, lastStart, lastStop, rpc,
                   recvResult, xferErr>>
    /\ UNCHANGED qvars
    /\ UNCHANGED <<wvars, pvars, dec>>

----------------------------------------------------------------------------
(* receive() (lib.rs) *)

\* line 65-66: iq_device() finds nothing, or Receiver::new fails
receive_setup_fail ==
    /\ rpc = "init"
    /\ rpc' = "done"
    /\ recvResult' = "err"
    /\ UNCHANGED <<running, skip_packet, buf, pending, freed, crashed, cbpc,
                   cbtodo, cbsecond, startCmds, endCmds, lastStart, lastStop,
                   xferErr>>
    /\ UNCHANGED qvars
    /\ UNCHANGED <<wvars, pvars, dec>>

\* line 67: receiver.start()?
receive_start(wr, native) ==
    /\ rpc = "init"
    /\ start_body(wr, native)
    /\ rpc' = IF lastStart' = "Ok" THEN "handler" ELSE "unwind"
    /\ UNCHANGED <<skip_packet, buf, freed, crashed, cbpc, cbtodo, cbsecond,
                   endCmds, lastStop, recvResult, xferErr>>
    /\ UNCHANGED qvars
    /\ UNCHANGED <<wvars, pvars, dec>>

\* line 69-71: ctrlc::set_handler(move || receiver.stop())?; on failure the
\* closure, and the Receiver moved into it, is dropped
receive_set_handler(ok) ==
    /\ rpc = "handler"
    /\ rpc' = IF ok THEN "head" ELSE "unwind"
    /\ UNCHANGED <<running, skip_packet, buf, pending, freed, crashed, cbpc,
                   cbtodo, cbsecond, startCmds, endCmds, lastStart, lastStop,
                   recvResult, xferErr>>
    /\ UNCHANGED qvars
    /\ UNCHANGED <<wvars, pvars, dec>>

\* the error return of lines 67 and 71: the Receiver is dropped on the way out
receive_unwind(wr) ==
    /\ ~crashed
    /\ rpc = "unwind"
    /\ drop_body(wr)
    /\ rpc' = "done"
    /\ recvResult' = "err"
    /\ UNCHANGED <<skip_packet, buf, pending, crashed, cbpc, cbtodo, cbsecond,
                   startCmds, lastStart, xferErr>>
    /\ UNCHANGED <<q, cpc, enq, deq>>
    /\ UNCHANGED <<wvars, pvars, dec>>

\* line 73: while is_running(); line 77: Ok(()) when the flag reads false
receive_check ==
    /\ ~crashed
    /\ rpc = "head"
    /\ IF running
       THEN rpc' = "events" /\ UNCHANGED recvResult
       ELSE rpc' = "done" /\ recvResult' = "ok"
    /\ UNCHANGED <<running, skip_packet, buf, pending, freed, crashed, cbpc,
                   cbtodo, cbsecond, startCmds, endCmds, lastStart, lastStop,
                   xferErr>>
    /\ UNCHANGED qvars
    /\ UNCHANGED <<wvars, pvars, dec>>

\* line 74: handle_events(50 ms)? returns, with or without an error
receive_events(ok) ==
    /\ ~crashed
    /\ rpc = "events"
    /\ cbpc = "idle"
    /\ IF ok
       THEN rpc' = "head" /\ UNCHANGED recvResult
       ELSE rpc' = "done" /\ recvResult' = "err"
    /\ UNCHANGED <<running, skip_packet, buf, pending, freed, crashed, cbpc,
                   cbtodo, cbsecond, startCmds, endCmds, lastStart, lastStop,
                   xferErr>>
    /\ UNCHANGED qvars
    /\ UNCHANGED <<wvars, pvars, dec>>

----------------------------------------------------------------------------
(* Writer (iq.rs) and write() (lib.rs).  The writer thread is consumer       *)
(* Writer of the queue; wpc is its position: "off" before it runs, "loop"    *)
(* at the test of line 87 of lib.rs, "write" inside the loop's               *)
(* Writer::write, "flush" at the test of line 242 of iq.rs, "flushwrite"     *)
(* inside flush's Writer::write, "done" when it has returned.                *)

Writer == 1

\* position of the highest set bit of m > 0
RECURSIVE top_bit(_)
top_bit(m) == IF m < 2 THEN 0 ELSE 1 + top_bit(m \div 2)

\* the IEEE-754 single-precision bit pattern of the f32 <<m, e>>, that is of
\* m * 2^e / 2^32 with m < 2^24: sign 0, biased exponent, 23-bit fraction
f32_bits(x) ==
    LET m == x[1]
        t == top_bit(m)
    IN  IF m = 0 THEN 0
        ELSE ((127 + t + x[2] - 32) * 8388608) + ((m - pow2(t)) * pow2(23 - t))

\* write_f32::<BigEndian>: the four bytes, most significant first
write_f32(x) ==
    LET n == f32_bits(x)
    IN  <<n \div 16777216, (n \div 65536) % 256, (n \div 256) % 256, n % 256>>

\* the two writes gone wrong: Q before I
write_sample_swapped(s) == write_f32(s[2]) \o write_f32(s[1])

\* Writer::write lines 235-236: I, then Q
write_sample(s) == write_f32(s[1]) \o write_f32(s[2])

\* how many of the 4 bytes of a write_f32 reach the sink: 4 is Ok, fewer is
\* an io::Error after a partial write
SinkWrites == {0, 2, 4}

\* where Writer::write returns to
after_write == IF wpc = "write" THEN "loop" ELSE "flush"

\* Writer::write from the return of dequeue (line 59 of queue.rs) on: the pop,
\* then the two writes of the sample if there is one; n1 and n2 are what the
\* sink does with them
write_return(n1, n2) ==
    LET r == pop_front(q)
    IN  /\ do_pop(Writer)
        /\ IF ~r.some
           THEN /\ sink' = sink
                /\ wres' = wres
                /\ wpc' = after_write
           ELSE IF n1 < 4
           THEN /\ sink' = sink \o SubSeq(write_f32(r.item[1]), 1, n1)
                /\ wres' = "Err"
                /\ wpc' = "done"
           ELSE IF n2 < 4
           THEN /\ sink' = sink \o write_f32(r.item[1]) \o SubSeq(write_f32(r.item[2]), 1, n2)
                /\ wres' = "Err"
                /\ wpc' = "done"
           ELSE /\ sink' = sink \o write_sample(r.item)
                /\ wres' = wres
                /\ wpc' = after_write

\* a thread calls write() of lib.rs (entry "loop"), or Writer::flush directly
\* (entry "flush")
writer_begin(entry) ==
    /\ wpc = "off"
    /\ wpc' = entry
    /\ UNCHANGED <<sink, wres>>
    /\ UNCHANGED <<qvars, rvars, pvars, dec>>

\* write() line 87: while !q.is_closed()
writer_check ==
    /\ wpc = "loop"
    /\ wpc' = IF is_closed THEN "flush" ELSE "write"
    /\ UNCHANGED <<sink, wres>>
    /\ UNCHANGED <<qvars, rvars, pvars, dec>>

\* Writer::write calls dequeue: it blocks on the condition variable, or pops
\* at once and writes
writer_dequeue(n1, n2) ==
    /\ wpc \in {"write", "flushwrite"}
    /\ cpc[Writer] = "idle"
    /\ IF wait_cond
       THEN /\ cpc' = [cpc EXCEPT ![Writer] = "waiting"]
            /\ UNCHANGED <<q, deq, wvars>>
       ELSE write_return(n1, n2)
    /\ UNCHANGED <<closed, enq>>
    /\ UNCHANGED <<rvars, pvars, dec>>

\* the notified writer reacquires the lock and tests the condition again
writer_wake(n1, n2) ==
    /\ wpc \in {"write", "flushwrite"}
    /\ cpc[Writer] = "woken"
    /\ IF wait_cond
       THEN /\ cpc' = [cpc EXCEPT ![Writer] = "waiting"]
            /\ UNCHANGED <<q, deq, wvars>>
       ELSE write_return(n1, n2)
    /\ UNCHANGED <<closed, enq>>
    /\ UNCHANGED <<rvars, pvars, dec>>

\* the timeout of the writer's dequeue elapses
writer_timeout(n1, n2) ==
    /\ wpc \in {"write", "flushwrite"}
    /\ cpc[Writer] \in {"waiting", "woken"}
    /\ write_return(n1, n2)
    /\ UNCHANGED <<closed, enq>>
    /\ UNCHANGED <<rvars, pvars, dec>>

\* the loop of flush stopped at once, whatever the queue holds
flush_pending_never == FALSE

\* Writer::flush line 242: while !self.queue.is_empty()
flush_pending == ~is_empty

\* Writer::flush at its loop test: another write, or return Ok
writer_flush_check ==
    /\ wpc = "flush"
    /\ IF flush_pending
       THEN wpc' = "flushwrite" /\ wres' = wres
       ELSE wpc' = "done" /\ wres' = "Ok"
    /\ UNCHANGED sink
    /\ UNCHANGED <<qvars, rvars, pvars, dec>>

\* the steps of the writer thread
writer_step ==
    \/ writer_check
    \/ \E n1 \in SinkWrites, n2 \in SinkWrites : writer_dequeue(n1, n2)
    \/ \E n1 \in SinkWrites, n2 \in SinkWrites : writer_wake(n1, n2)
    \/ \E n1 \in SinkWrites, n2 \in SinkWrites : writer_timeout(n1, n2)
    \/ writer_flush_check

----------------------------------------------------------------------------
(* Specifications *)

\* no call of a function under test
NoCall == [op |-> "none"]

\* Queue::new and Receiver::new, before any thread has run
InitState ==
    /\ q = with_capacity(QueueCapacity)
    /\ closed = FALSE
    /\ cpc = [c \in Consumers |-> "idle"]
    /\ enq = <<>>
    /\ deq = <<>>
    /\ running = FALSE
    /\ skip_packet = TRUE
    /\ buf = 1
    /\ pending = 0
    /\ freed = FALSE
    /\ crashed = FALSE
    /\ cbpc = "idle"
    /\ cbtodo = <<>>
    /\ cbsecond = FALSE
    /\ startCmds = 0
    /\ endCmds = 0
    /\ lastStart = "None"
    /\ lastStop = "None"
    /\ recvResult = "none"
    /\ xferErr = FALSE
    /\ dec = <<>>
    /\ sink = <<>>
    /\ wres = "none"
    /\ pout = NoCall

\* rpc = "off": a client drives the Receiver, rpc = "init": receive() does
Init ==
    /\ InitState
    /\ rpc \in {"off", "init"}
    /\ wpc = "off"
    /\ pin = NoCall

\* the capture pipeline: Receiver, transfer engine and receive()
Next ==
    \/ \E wr \in BOOLEAN, native \in SubmitReturns : start(wr, native)
    \/ \E wr \in BOOLEAN : stop(wr)
    \/ \E wr \in BOOLEAN : drop(wr)
    \/ \E status \in TransferStatuses : callback_wrapper(status)
    \/ callback_enqueue
    \/ callback_return
    \/ \E native \in SubmitReturns : callback_resubmit(native)
    \/ \E b \in BufferIds : hw_fill(b)
    \/ crash
    \/ receive_setup_fail
    \/ \E wr \in BOOLEAN, native \in SubmitReturns : receive_start(wr, native)
    \/ \E ok \in BOOLEAN : receive_set_handler(ok)
    \/ \E wr \in BOOLEAN : receive_unwind(wr)
    \/ receive_check
    \/ \E ok \in BOOLEAN : receive_events(ok)

Spec == Init /\ [][Next]_vars

\* a Queue shared by client threads: producers, consumers and a closer
QueueInit == Init /\ rpc = "off"

QueueNext ==
    \/ \E v \in Items : enqueue(v)
    \/ \E c \in Consumers : dequeue(c)
    \/ \E c \in Consumers : dequeue_wake(c)
    \/ \E c \in Consumers : dequeue_timeout(c)
    \/ \E c \in Consumers : spurious_wake(c)
    \/ notify_all
    \/ close

QueueSpec == QueueInit /\ [][QueueNext]_vars

----------------------------------------------------------------------------
(* The writer thread on a queue fed and closed by other threads *)

\* the samples the producers enqueue: those the test buffers decode to, and
\* (0.0, 0.0)
Samples ==
    {Decoded[i][j] : <<i, j>> \in {x \in BufferIds \X (1..MaxEnq) : x[2] <= Len(Decoded[x[1]])}}
    \cup {<<<<0, 0>>, <<0, 0>>>>}

WriterInit == Init /\ rpc = "off"

WriterNext ==
    \/ \E v \in Samples : enqueue(v)
    \/ close
    \/ \E entry \in {"loop", "flush"} : writer_begin(entry)
    \/ writer_check
    \/ \E n1 \in SinkWrites, n2 \in SinkWrites : writer_dequeue(n1, n2)
    \/ \E n1 \in SinkWrites, n2 \in SinkWrites : writer_wake(n1, n2)
    \/ \E n1 \in SinkWrites, n2 \in SinkWrites : writer_timeout(n1, n2)
    \/ writer_flush_check
    \/ spurious_wake(Writer)

WriterSpec == WriterInit /\ [][WriterNext]_vars

\* the writer thread is scheduled, and the timeout of its wait elapses
WriterFairSpec == WriterSpec /\ WF_vars(writer_step)

----------------------------------------------------------------------------
(* Receiver and writer together on one queue, as the two threads of a client *)

PipelineInit == Init /\ rpc = "off"

\* returns of libusb_submit_transfer, one for each way start and
\* callback_wrapper go on: success, Error::Other, any other error
PipelineReturns == {"SUCCESS", "OTHER", "IO"}

\* completion statuses, one for each way the callback goes on: Ok, the
\* Error::Other it takes for success, any other error
PipelineStatuses == {"COMPLETED", "ERROR", "STALL"}

PipelineNext ==
    \/ \E wr \in BOOLEAN, native \in PipelineReturns :
           (startCmds < PipelineStarts /\ start(wr, native))
    \/ \E wr \in BOOLEAN : stop(wr)
    \/ \E status \in PipelineStatuses : callback_wrapper(status)
    \/ callback_enqueue
    \/ callback_return
    \/ \E native \in PipelineReturns : callback_resubmit(native)
    \/ \E b \in BufferIds : hw_fill(b)
    \/ writer_begin("loop")
    \/ writer_check
    \/ \E n1 \in SinkWrites, n2 \in SinkWrites : writer_dequeue(n1, n2)
    \/ \E n1 \in SinkWrites, n2 \in SinkWrites : writer_wake(n1, n2)
    \/ \E n1 \in SinkWrites, n2 \in SinkWrites : writer_timeout(n1, n2)
    \/ writer_flush_check

PipelineSpec == PipelineInit /\ [][PipelineNext]_vars

\* the steps of the event thread: completions are dispatched and callbacks run
event_step ==
    \/ \E status \in PipelineStatuses : callback_wrapper(status)
    \/ callback_enqueue
    \/ callback_return
    \/ \E native \in PipelineReturns : callback_resubmit(native)

\* both threads are scheduled: the writer keeps polling, pending transfers
\* complete
PipelineFairSpec == PipelineSpec /\ WF_vars(writer_step) /\ WF_vars(event_step)

----------------------------------------------------------------------------
(* The decoder applied to buffers of any length and content *)

\* every sequence of n bytes that are 0 or 1
BitBuffers(n) == [1..n -> {0, 1}]

\* 8-byte chunks with the marker (the low byte of I odd or even), and without
TestChunks ==
    {Framed(k) : k \in 0..MaxFrameByte} \cup {Unframed, <<0, 0, 0, 0, 0, 0, 0, 0>>}

\* stale bytes ahead of the chunks, and a partial chunk behind them
StalePrefixes == {<<>>, <<0, 0, 0>>, Zeros(8)}
PartialTails == {<<>>, <<5, 1, 0>>}

DecodeBuffers ==
    (UNION {BitBuffers(n) : n \in 0..MaxBitBuffer})
    \cup {s \o c1 \o c2 \o c3 \o t :
            s \in StalePrefixes, c1 \in TestChunks, c2 \in TestChunks,
            c3 \in TestChunks, t \in PartialTails}

DecodeInputs == [op : {"decode"}, buffer : DecodeBuffers]

\* callback lines 108-119 on the buffer pin.buffer: what find_packet returns
\* and the samples handed to the queue
decode_call ==
    /\ pin.op = "decode"
    /\ pout.op = "none"
    /\ pout' = [op |-> "decode",
                find |-> find_packet(pin.buffer),
                samples |-> decode(pin.buffer)]
    /\ UNCHANGED <<qvars, rvars, wvars, dec, pin>>

DecodeInit ==
    /\ InitState
    /\ rpc = "off"
    /\ wpc = "off"
    /\ pin \in DecodeInputs

DecodeNext == decode_call

DecodeSpec == DecodeInit /\ [][DecodeNext]_vars

----------------------------------------------------------------------------
(* read_packet applied to chunks of any content *)

\* byte values that reach every bit position, the extremes among them
ByteSamples == {0, 1, 85, 128, 170, 255}

\* four bytes, and the same bytes in the opposite order
WordSamples == [1..4 -> ByteSamples]
Reversed(w) == [i \in 1..Len(w) |-> w[Len(w) + 1 - i]]

\* chunks: I is a sampled word and Q the same bytes reversed
NumeratorInputs == [op : {"read_packet"}, chunk : {w \o Reversed(w) : w \in WordSamples}]

\* read_packet lines 71-86 on the chunk pin.chunk, up to the integers that
\* are converted to f32
read_packet_call ==
    /\ pin.op = "read_packet"
    /\ pout.op = "none"
    /\ pout' = [op |-> "read_packet",
                i |-> numerator(read_u32(pin.chunk, 0)),
                q |-> numerator(read_u32(pin.chunk, 4)),
                sample |-> read_packet(pin.chunk, 0)]
    /\ UNCHANGED <<qvars, rvars, wvars, dec, pin>>

NumeratorInit ==
    /\ InitState
    /\ rpc = "off"
    /\ wpc = "off"
    /\ pin \in NumeratorInputs

NumeratorNext == read_packet_call

NumeratorSpec == NumeratorInit /\ [][NumeratorNext]_vars

----------------------------------------------------------------------------
(* submit_iso called directly, as the public trait method it is *)

\* endpoint addresses: two OUT, two IN
SubmitEndpoints == {2, 6, 129, DATA_ENDPOINT}

\* packet lengths: small ones, and large ones near the top of usize
SubmitPacketLens ==
    {0, 1, 2, 3, USIZE_MOD \div 3 + 1, USIZE_MOD \div 2, USIZE_MOD - 1}

\* the arguments of one call, the callback's buffer length among them;
\* checked says whether the build panics on integer overflow
SubmitInputs ==
    [op : {"submit_iso"},
     endpoint : SubmitEndpoints,
     num_packets : 0..MaxSubmitPackets,
     packet_len : SubmitPacketLens,
     buffer_len : 0..MaxSubmitBuffer,
     checked : BOOLEAN]

\* one call of submit_iso with the arguments pin; native is what
\* libusb_submit_transfer returns if it is called
submit_iso_call(native) ==
    /\ pin.op = "submit_iso"
    /\ pout.op = "none"
    /\ pout' =
         IF /\ pin.checked
            /\ endpoint_in(pin.endpoint)
            /\ iso_overflows(pin.num_packets, pin.packet_len)
         THEN [op |-> "submit_iso", result |-> "Panic", native_called |-> FALSE]
         ELSE [op |-> "submit_iso",
               result |-> submit_iso(pin.endpoint, pin.num_packets, pin.packet_len,
                                     pin.buffer_len, native),
               native_called |-> iso_native_called(pin.endpoint, pin.num_packets,
                                                   pin.packet_len, pin.buffer_len)]
    /\ UNCHANGED <<qvars, rvars, wvars, dec, pin>>

SubmitInit ==
    /\ InitState
    /\ rpc = "off"
    /\ wpc = "off"
    /\ pin \in SubmitInputs

SubmitNext == \E native \in SubmitReturns : submit_iso_call(native)

SubmitSpec == SubmitInit /\ [][SubmitNext]_vars

----------------------------------------------------------------------------
(* Claims *)

\* C1: under any interleaving of enqueue and dequeue calls, the items that
\* dequeue has returned are, in order, a prefix of the items enqueued: none
\* is returned twice, skipped or reordered.
C1_DequeuedIsPrefixOfEnqueued ==
    /\ Len(deq) <= Len(enq)
    /\ deq = SubSeq(enq, 1, Len(deq))

\* two different items came out while a third was still queued
C1_Witness ==
    /\ Len(deq) >= 2
    /\ deq[1] # deq[2]
    /\ q # <<>>

\* C2: close() on an empty queue wakes every consumer blocked in dequeue, so
\* none is left waiting for its own timeout on a closed, empty queue.
C2_CloseWakesBlocked ==
    (closed /\ q = <<>>) => \A c \in Consumers : cpc[c] # "waiting"

\* C3: once the queue is closed nothing is enqueued any more (so a drained
\* queue stays empty), also when a completion callback is pending or running
\* while stop() closes it.
C3_NoEnqueueAfterClose == [][closed => enq' = enq]_vars

\* C4: at most one transfer is pending against the Receiver's buffer at any
\* time, also when start() is called again after stop().
C4_OneTransferPending == pending <= 1

\* C5: when the Receiver is dropped, stop() has run and no transfer that
\* refers to the buffer is pending at the moment the buffer is freed.
C5_NoPendingAtFree == [][(~freed /\ freed') => (~running' /\ pending' = 0)]_vars

\* C6: start() on a Running receiver returns the already-running error, writes
\* no START_CAPTURE and submits no transfer.
C6_StartWhileRunning ==
    [][\A wr \in BOOLEAN, native \in SubmitReturns :
         (running /\ start(wr, native)) =>
             /\ lastStart' = "AlreadyRunning"
             /\ startCmds' = startCmds
             /\ pending' = pending]_vars

\* start() was called twice with no stop(): one command, one transfer
C6_Witness ==
    /\ lastStart = "AlreadyRunning"
    /\ running
    /\ startCmds = 1
    /\ pending = 1

\* C7: a start() that fails on the command write or on the submission leaves
\* the Running flag false.
C7_FailedStartRollsBack ==
    [][\A wr \in BOOLEAN, native \in SubmitReturns :
         (start(wr, native) /\ lastStart' \in {"ErrCommand", "ErrSubmit"}) =>
             ~running']_vars

\* C8: stop() leaves Running false, and when Running is already false it is a
\* no-op: no END_CAPTURE write, queue flag and contents untouched.
C8_StopWhileIdle ==
    [][\A wr \in BOOLEAN :
         stop(wr) =>
             /\ ~running'
             /\ ~running => /\ endCmds' = endCmds
                            /\ closed' = closed
                            /\ q' = q
                            /\ lastStop' = "NoOp"]_vars

\* stop() was called on an already stopped receiver: still one END_CAPTURE
C8_Witness ==
    /\ lastStop = "NoOp"
    /\ endCmds = 1
    /\ closed

\* C9: stop() on a Running receiver clears Running, closes the queue and
\* writes END_CAPTURE exactly once, whether or not that write succeeds.
C9_StopWhileRunning ==
    [][\A wr \in BOOLEAN :
         (running /\ stop(wr)) =>
             /\ ~running'
             /\ closed'
             /\ endCmds' = endCmds + 1
             /\ lastStop' \in {"Sent", "SendFailed"}]_vars

\* the END_CAPTURE write failed: stopped and closed all the same
C9_Witness ==
    /\ lastStop = "SendFailed"
    /\ ~running
    /\ closed
    /\ endCmds = 1

\* C10: when a transfer error reported to the callback ended the capture,
\* receive() returns an error.
C10_TransferErrorSurfaces ==
    (rpc = "done" /\ xferErr) => recvResult = "err"

\* C11: in every queue state enqueue appends the item at the back and the
\* length grows by one; nothing is rejected or dropped, whatever the capacity
\* hint and the closed flag.
C11_EnqueueAlwaysAppends ==
    [][\A v \in Items :
         enqueue(v) => (q' = q \o <<v>> /\ Len(q') = Len(q) + 1)]_vars

\* a closed queue holding more items than the capacity passed to new()
C11_Witness ==
    /\ closed
    /\ Len(q) > QueueCapacity
    /\ deq = <<>>

\* consumer c's dequeue call returns in this step
dequeue_returns(c) ==
    \/ dequeue_timeout(c)
    \/ (dequeue(c) /\ cpc'[c] = "idle")
    \/ (dequeue_wake(c) /\ cpc'[c] = "idle")

\* C12: a dequeue that stops waiting returns and removes the front item when
\* the queue is non-empty (closed or not), and returns none, leaving the queue
\* as it is, only when the queue is empty; it does not go on waiting on a
\* closed or a non-empty queue.
C12_DequeueReturnsFront ==
    [][\A c \in Consumers :
         /\ dequeue_returns(c) =>
                IF q # <<>>
                THEN q' = Tail(q) /\ deq' = Append(deq, Head(q))
                ELSE q' = q /\ deq' = deq
         /\ ((dequeue(c) \/ dequeue_wake(c)) /\ (closed \/ q # <<>>)) =>
                cpc'[c] = "idle"]_vars

\* items came out of a closed queue, and it still holds one
C12_Witness ==
    /\ closed
    /\ deq # <<>>
    /\ q # <<>>
    /\ \E c \in Consumers : cpc[c] = "woken"

\* C13: nothing reopens a closed queue, a second close() changes nothing, and
\* close() leaves the items and their order alone.
C13_CloseIdempotentMonotonic ==
    [][/\ closed => closed'
       /\ close => /\ closed'
                   /\ q' = q
                   /\ closed => UNCHANGED vars]_vars

\* a queue closed while it held items
C13_Witness ==
    /\ closed
    /\ Len(q) >= 2

\* C14: submit_iso returns InvalidParam without a native call when the endpoint
\* is not an IN endpoint or the buffer is shorter than
\* packet_len * (num_packets + 1), and submits a transfer only when both
\* preconditions hold.
C14_SubmitIsoValidates ==
    pout.op = "submit_iso" =>
        LET rejected == \/ ~endpoint_in(pin.endpoint)
                        \/ pin.buffer_len < pin.packet_len * (pin.num_packets + 1)
        IN  /\ rejected => (pout.result = "InvalidParam" /\ ~pout.native_called)
            /\ pout.native_called => ~rejected

\* 0-based offsets p of b with at least 8 bytes remaining and bit 0 of byte
\* p + 1 set
SyncOffsets(b) == {p \in 0..(Len(b) - 8) : (b[p + 2] % 2) = 1}

SetMin(S) == CHOOSE x \in S : \A y \in S : x <= y

\* C15: when some offset with 8 bytes remaining carries the marker,
\* find_packet returns the slice at the smallest such offset, whether or not
\* it is a multiple of 8.
C15_FindPacketFirstOffset ==
    (pout.op = "decode" /\ SyncOffsets(pin.buffer) # {}) =>
        pout.find = [kind |-> "Ok", off |-> SetMin(SyncOffsets(pin.buffer))]

\* find_packet synchronized off the 8-byte grid
C15_Witness ==
    /\ pout.op = "decode"
    /\ SyncOffsets(pin.buffer) # {}
    /\ pout.find.kind = "Ok"
    /\ pout.find.off % 8 = 3

FramedChunks(b, s) ==
    {j \in 0..(((Len(b) - s) \div 8) - 1) : (b[s + (8 * j) + 2] % 2) = 1}

\* the k-th smallest element of S
Nth(S, k) == CHOOSE x \in S : Cardinality({y \in S : y < x}) = k - 1

\* one sample per framed full chunk from offset s, in chunk order
ChunkSamples(b, s) ==
    [k \in 1..Cardinality(FramedChunks(b, s)) |->
        read_packet(b, s + (8 * Nth(FramedChunks(b, s), k)))]

\* 8 stale zero bytes, then a framed, a framed and an unframed chunk
StaleValidValidInvalid(b) ==
    /\ Len(b) = 32
    /\ SubSeq(b, 1, 8) = Zeros(8)
    /\ (b[10] % 2) = 1
    /\ (b[18] % 2) = 1
    /\ (b[26] % 2) = 0

\* C17 as stated: one sample per framed full chunk from the sync offset, in
\* order, and every buffer of 8 stale bytes followed by valid, valid, invalid
\* chunks yields exactly 2 samples.
C17_DecodeAsStated ==
    pout.op = "decode" =>
        /\ pout.find.kind = "Ok" =>
               pout.samples = ChunkSamples(pin.buffer, pout.find.off)
        /\ StaleValidValidInvalid(pin.buffer) => Len(pout.samples) = 2

\* C17 amended: one sample per framed full chunk counted from the sync offset,
\* in order, nothing from a trailing partial chunk and nothing without a sync
\* offset; the stale, valid, valid, invalid buffer yields exactly the two
\* samples of its valid chunks when the first chunk's byte 0 is even, so that
\* the sync offset is 8.
C17_DecodeFromSyncOffset ==
    pout.op = "decode" =>
        /\ pout.find.kind = "Ok" =>
               pout.samples = ChunkSamples(pin.buffer, pout.find.off)
        /\ pout.find.kind # "Ok" => pout.samples = <<>>
        /\ (StaleValidValidInvalid(pin.buffer) /\ (pin.buffer[9] % 2) = 0) =>
               /\ pout.find.off = 8
               /\ pout.samples = <<read_packet(pin.buffer, 8), read_packet(pin.buffer, 16)>>

\* the stale, valid, valid, invalid buffer decoded to two samples
C17_Witness ==
    /\ pout.op = "decode"
    /\ StaleValidValidInvalid(pin.buffer)
    /\ (pin.buffer[9] % 2) = 0
    /\ Len(pout.samples) = 2

\* s is a prefix of t
IsPrefix(s, t) == Len(s) <= Len(t) /\ s = SubSeq(t, 1, Len(s))

\* the bytes of a sequence of samples: each as I then Q, big-endian
RECURSIVE SampleBytes(_)
SampleBytes(ss) ==
    IF ss = <<>> THEN <<>>
    ELSE write_f32(Head(ss)[1]) \o write_f32(Head(ss)[2]) \o SampleBytes(Tail(ss))

\* C18: the bytes in the sink are at every point a prefix of the bytes of the
\* samples decoded so far, taken in buffer completion order and chunk order;
\* the queue in between holds them in that order too.
C18_SinkIsPrefixOfDecoded ==
    /\ IsPrefix(sink, SampleBytes(dec))
    /\ IsPrefix(enq, dec)
    /\ enq = deq \o q

\* samples of two buffers went through, the first already in the sink
C18_Witness ==
    /\ Len(dec) >= 3
    /\ Len(sink) >= 16
    /\ q # <<>>
    /\ dec[1] # dec[3]

\* C19 as stated: a call of Writer::write takes at most one sample off the
\* queue and the sink grows by exactly that sample's I and Q; when dequeue
\* returns none the sink is unchanged and write returns Ok.
C19_WriteAsStated ==
    [][(wpc \in {"write", "flushwrite"} /\ wpc' # wpc) =>
           IF q # <<>>
           THEN /\ q' = Tail(q)
                /\ sink' = sink \o write_f32(Head(q)[1]) \o write_f32(Head(q)[2])
           ELSE /\ q' = q
                /\ sink' = sink
                /\ wres' # "Err"]_vars

\* C19 amended: a call of Writer::write takes at most one sample off the
\* queue, and only in the step in which it returns; when both sink writes
\* succeed the sink grows by exactly that sample's I and Q, and when one fails
\* write returns the error and the sample is gone from the queue; when dequeue
\* returns none the sink is unchanged and write returns Ok.
C19_WriteOneSample ==
    [][/\ (wpc \in {"write", "flushwrite"} /\ wpc' = wpc) =>
              (sink' = sink /\ deq' = deq)
       /\ (wpc \in {"write", "flushwrite"} /\ wpc' # wpc) =>
              IF q # <<>>
              THEN /\ deq' = Append(deq, Head(q))
                   /\ q' = Tail(q)
                   /\ wres' # "Err" =>
                          sink' = sink \o write_f32(Head(q)[1]) \o write_f32(Head(q)[2])
                   /\ wres' = "Err" =>
                          (wpc' = "done" /\ IsPrefix(sink, sink') /\ Len(sink') < Len(sink) + 8)
              ELSE /\ q' = q
                   /\ deq' = deq
                   /\ sink' = sink
                   /\ wres' # "Err"
                   /\ wpc' = after_write]_vars

\* the sample 258 / 2^32, 0x01FE0103 / 2^32 (rounded to f32) was written, as
\* 0x33810000 then 0x3BFF0082, and the next write found the queue empty
C19_Witness ==
    /\ sink = <<51, 129, 0, 0, 59, 255, 0, 130>>
    /\ wpc \in {"write", "flushwrite"}
    /\ cpc[Writer] = "waiting"

\* C20: flush on a closed queue returns; when it returns Ok the queue is empty
\* and the sink holds every sample enqueued so far, in the order of enqueueing.
C20_FlushDrains ==
    /\ [](((wpc \in {"flush", "flushwrite"}) /\ closed) => <>(wpc = "done"))
    /\ [][(wpc = "flush" /\ wpc' = "done") =>
              (q' = <<>> /\ wres' = "Ok" /\ sink' = SampleBytes(enq'))]_vars

\* flush returned Ok after writing samples of a closed queue
C20_Witness ==
    /\ wpc = "done"
    /\ wres = "Ok"
    /\ closed
    /\ Len(sink) >= 16

\* C21: whatever error a completion reports to the callback, the generic
\* Error::Other included, the callback sets Running to false and enqueues no
\* samples, so that it returns false and the transfer is not resubmitted.
C21_ErrorEndsCapture ==
    [][\A status \in TransferStatuses :
         (callback_wrapper(status) /\ status_result(status) # "Ok") =>
             (~running' /\ cbtodo' = <<>>)]_vars

\* C22: when the resubmission from callback_wrapper fails, with whatever error
\* code, the callback is invoked once more with that error and Running is
\* false from then on.
C22_FailedResubmitEndsCapture ==
    [][\A native \in LibusbErrors :
         callback_resubmit(native) =>
             (cbsecond' /\ cbpc' = "run" /\ ~running')]_vars

\* C23: stop() leaves Running false and only a start() sets it again; while it
\* is false every callback that returns, returns false and goes back to the
\* event loop without a resubmission, and transfers are submitted only by a
\* start() or by a callback_wrapper whose callback had returned true: each
\* transfer in flight at stop() completes at most once more and then ends.
C23_StopHaltsResubmission ==
    [][/\ (endCmds' # endCmds \/ lastStop' # lastStop) => ~running'
       /\ (~running /\ running') => startCmds' = startCmds + 1
       /\ (~running /\ cbpc = "run" /\ cbpc' # "run") =>
              (cbpc' = "idle" /\ pending' = pending)
       /\ (pending' > pending /\ startCmds' = startCmds) => cbpc = "cont"]_vars

\* stop() was sent after a successful start, the pending transfer completed
\* once and nothing is pending any more
C23_Witness ==
    /\ lastStart = "Ok"
    /\ lastStop = "Sent"
    /\ startCmds = 1
    /\ ~running
    /\ ~skip_packet
    /\ ~xferErr
    /\ pending = 0
    /\ cbpc = "idle"

\* C24: callback_wrapper goes on to resubmit exactly when the callback of a
\* completion returned true (the Running flag); the resubmission puts the
\* same transfer, with the same buffer, back in flight; a callback is invoked
\* only for a transfer that completes or whose resubmission failed, so after
\* a callback returned false its transfer sees no further callback.
C24_ResubmitIffTrue ==
    [][/\ (cbpc = "run" /\ cbpc' = "cont") => (running /\ ~cbsecond)
       /\ (cbpc = "run" /\ cbpc' = "idle") =>
              ((cbsecond \/ ~running) /\ pending' = pending)
       /\ (cbpc = "cont" /\ cbpc' # "cont") =>
              \/ (cbpc' = "idle" /\ pending' = pending + 1 /\ buf' = buf)
              \/ (cbpc' = "run" /\ cbsecond' /\ pending' = pending)
       /\ (cbpc # "run" /\ cbpc' = "run") =>
              (cbpc = "cont" \/ (pending > 0 /\ pending' = pending - 1))
       /\ (pending' > pending /\ startCmds' = startCmds) => cbpc = "cont"]_vars

\* a capture whose transfer was resubmitted (a second completion was decoded)
\* and then ended by an error: the callback returned false, nothing is pending
C24_Witness ==
    /\ lastStart = "Ok"
    /\ startCmds = 1
    /\ lastStop = "None"
    /\ xferErr
    /\ ~running
    /\ dec # <<>>
    /\ cbpc = "idle"
    /\ pending = 0

\* C25: after every start() that succeeds, the first of a Receiver or one that
\* follows a stop(), the Skip-First-Packet flag is true, so that the first
\* successful completion of the capture is discarded.
C25_SkipFlagSetByStart ==
    [][(startCmds' = startCmds + 1 /\ lastStart' = "Ok") => skip_packet']_vars

\* C26: a successful completion whose buffer has no sync position enqueues
\* nothing and leaves the Running flag as it is, and the callback then returns
\* the Running value: a running capture goes on to the resubmission.
C26_NoSyncContinues ==
    [][/\ (cbpc = "idle" /\ cbpc' = "run" /\ ~Synced[buf]) =>
              \A status \in TransferStatuses :
                  (callback_wrapper(status) /\ status_result(status) = "Ok") =>
                      (cbtodo' = <<>> /\ dec' = dec /\ enq' = enq /\ running' = running)
       /\ (cbpc = "run" /\ cbpc' # "run") =>
              (cbpc' = "cont" <=> (running /\ ~cbsecond))]_vars

\* samples were decoded before, then a completion delivered the buffer
\* without a sync position and the callback returned true
C26_Witness ==
    /\ running
    /\ dec # <<>>
    /\ ~Synced[buf]
    /\ pending = 0
    /\ cbpc = "cont"
    /\ ~xferErr

\* a capture that had started is over
capture_ended == lastStart = "Ok" /\ ~running

\* C27: once a running capture has ended, by stop() or by a transfer error
\* reported to the callback, the queue gets closed, so that the writer loop,
\* polling is_closed, comes to its end.
C27_CaptureEndStopsWriter ==
    (capture_ended /\ wpc # "off") ~> (wpc = "done")

\* bit k (0..31) of the little-endian word in the four bytes of c from
\* 0-based offset off
WordBit(c, off, k) == (c[off + (k \div 8) + 1] \div pow2(k % 8)) % 2

\* bit k (0..31) of a 32-bit integer carried as halves
HalvesBit(n, k) ==
    IF k >= 16 THEN (n.hi \div pow2(k - 16)) % 2 ELSE (n.lo \div pow2(k)) % 2

\* the claimed numerator of the word n, bit by bit: bits 17..31 are bits
\* 16..30 of n, bit 16 is clear, bits 1..15 are those of n, bit 0 is bit 31
\* of n
ClaimedBit(c, off, k) ==
    IF k >= 17 THEN WordBit(c, off, k - 1)
    ELSE IF k = 16 THEN 0
    ELSE IF k >= 1 THEN WordBit(c, off, k)
    ELSE WordBit(c, off, 31)

\* C28: the integer read_packet normalizes is, for I (bytes 0..3) and Q (bytes
\* 4..7) alike, ((n >> 16) << 1 mod 2^16) * 2^16 + L with L the low half of n
\* whose bit 0 is replaced by bit 31 of n; it fits 32 bits and its bit 16 is
\* clear.
C28_NumeratorBits ==
    pout.op = "read_packet" =>
        /\ \A k \in 0..31 :
               /\ HalvesBit(pout.i, k) = ClaimedBit(pin.chunk, 0, k)
               /\ HalvesBit(pout.q, k) = ClaimedBit(pin.chunk, 4, k)
        /\ pout.i.hi \in 0..65535 /\ pout.i.lo \in 0..65535
        /\ pout.q.hi \in 0..65535 /\ pout.q.lo \in 0..65535
        /\ pout.i.hi % 2 = 0 /\ pout.q.hi % 2 = 0

\* an I word with bit 31 set and bit 0 clear: bit 0 of the numerator is set
C28_Witness ==
    /\ pout.op = "read_packet"
    /\ pin.chunk[4] >= 128
    /\ pin.chunk[1] % 2 = 0
    /\ pout.i.lo % 2 = 1
    /\ pout.i.hi % 2 = 0

\* C29: a start() from Idle writes START_CAPTURE and submits the first
\* transfer only when that write succeeded: after a failed write it returns
\* the error with no transfer submitted, and a transfer it submits is one
\* whose command write and libusb_submit_transfer both succeeded.
C29_StartCommandBeforeTransfer ==
    [][/\ (~running /\ running') => startCmds' = startCmds + 1
       /\ (startCmds' # startCmds) =>
              \A wr \in BOOLEAN, native \in SubmitReturns :
                  (start(wr, native) \/ receive_start(wr, native)) =>
                      /\ ~running
                      /\ startCmds' = startCmds + 1
                      /\ ~wr => (pending' = pending /\ lastStart' = "ErrCommand")
                      /\ pending' # pending =>
                             /\ wr /\ native = "SUCCESS"
                             /\ pending' = pending + 1 /\ lastStart' = "Ok"]_vars

\* the one start() so far failed on the command write: nothing is pending
C29_Witness ==
    /\ startCmds = 1
    /\ lastStart = "ErrCommand"
    /\ pending = 0
    /\ cbpc = "idle"
    /\ skip_packet

====
